---- MODULE Spec2Model ----
(***************************************************************************)
(* mqroute: the topic trie and resolver (mqttdeco/callback_resolver.py),   *)
(* the callback runner (mqroute/callback_runner.py) and the client glue    *)
(* (mqroute/mqtt_client.py).                                               *)
(*                                                                         *)
(* A Python str is a sequence of one-character strings, so that split,     *)
(* join, startswith and slicing are computed, not assumed.  None is the    *)
(* empty tuple and a present value x is <<x>>.                             *)
(***************************************************************************)
EXTENDS Integers, Sequences, FiniteSets, TLC

VARIABLES
    trie,           \* CallbackResolver.__nodes: path of child keys -> TopicNode
    cache,          \* the lru_cache of CallbackResolver.get_matching_nodes
    memoAt,         \* history: topic -> Len(registered) when its cache entry
                    \*          was made, or -1
    subscriptions,  \* MQTTClient.__subscriptions
    registered,     \* history: the (topic, callback) pairs given to register
    lastOp,         \* history: the last resolver operation
    lastTopic,      \* history: the topic of the last callbacks() call
    lastMatches,    \* history: topic_matches of the last callbacks() call
    lastResult,     \* history: the list the last callbacks() call returned
    lastHit,        \* history: whether the last callbacks() call hit the cache
    missAt,         \* history: topic -> Len(registered) when callbacks(topic)
                    \*          last returned [], or -1
    lookups,        \* history: number of callbacks() calls made
    runPc,          \* where MQTTClient.run() stands
    loop,           \* CallbackRunner.__loop
    ready,          \* CallbackRunner.__ready
    task,           \* where the process_callbacks task stands
    scheduled,      \* queue.put coroutines handed to the loop, not yet run
    queue,          \* CallbackRunner.__queue
    running,        \* the (request, msg) pairs whose handler has begun and not ended
    nextId,         \* history: number of run_callback calls made so far
    calledReady,    \* history: ids of run_callback calls made while ready, in call order
    calledNotReady, \* history: ids of run_callback calls made while not ready
    started,        \* history: ids in the order their handlers were begun
    finished,       \* history: ids whose handler returned
    raised,         \* history: ids whose handler raised
    invoked,        \* history: ids whose wrapper called the user's function
    connack,        \* a CONNACK the transport has yet to hand to on_connect
    subscribeCalls, \* history: the lists given to the transport's subscribe
    connacks,       \* history: number of on_connect calls
    disconnects,    \* history: number of on_disconnect calls
    lastConnect,    \* history: how the latest connect attempt ended
    backoff,        \* reconnect(): its local backoff, 0 outside reconnect()
    retries,        \* history: failed attempts of the latest reconnect()
    waited,         \* history: length of the latest time.sleep of reconnect()
    prevRetries,    \* history: failed attempts of the reconnect() before the latest
    peerTask,       \* where the process_callbacks task of a second client stands
    peerStarted     \* history: ids in the order the second client's task began them

resolverVars == <<trie, cache, memoAt, subscriptions, registered, lastOp, lastTopic,
                  lastMatches, lastResult, lastHit, missAt, lookups>>

lookupVars == <<lastOp, lastTopic, lastMatches, lastResult, lastHit, missAt, lookups>>

runnerVars == <<runPc, loop, ready, task, scheduled, queue, running, nextId,
                calledReady, calledNotReady, started, finished, raised, invoked>>

transportVars == <<connack, subscribeCalls, connacks, disconnects, lastConnect,
                   backoff, retries, waited, prevRetries>>

peerVars == <<peerTask, peerStarted>>

vars == <<trie, cache, memoAt, subscriptions, registered, lastOp, lastTopic,
          lastMatches, lastResult, lastHit, missAt, lookups,
          runPc, loop, ready, task, scheduled, queue, running, nextId,
          calledReady, calledNotReady, started, finished, raised, invoked,
          connack, subscribeCalls, connacks, disconnects, lastConnect,
          backoff, retries, waited, prevRetries, peerTask, peerStarted>>

----------------------------------------------------------------------------
(* Bounds and input sets *)

MaxRegs == 2
MaxLookups == 2
MaxCalls == 4
MaxDisconnects == 2
MaxRetries == 7
MaxClientCalls == 2

None == <<>>
Some(x) == <<x>>

\* the i-th registration registers the i-th handler (every decoration makes
\* a new wrapper function object)
HandlerNames == <<"h1", "h2", "h3", "h4", "h5">>

Patterns ==
    { <<"a">>,
      <<"a", "/", "b">>,
      <<"a", "/", "b", "/", "c">>,
      <<"a", "/", "#">>,
      <<"a", "/", "+", "x", "+", "/", "c">>,
      <<"a", "/", "+", "/", "d">>,
      <<"a", "/", "+", "y", "+", "/", "c">> }

Topics ==
    { <<"a">>,
      <<"a", "/", "b">>,
      <<"a", "/", "b", "/", "c">>,
      <<"x", "/", "y">> }

----------------------------------------------------------------------------
(* str helpers *)

RECURSIVE SplitAcc(_, _, _)
SplitAcc(s, cur, acc) ==
    IF s = <<>> THEN Append(acc, cur)
    ELSE IF Head(s) = "/" THEN SplitAcc(Tail(s), <<>>, Append(acc, cur))
    ELSE SplitAcc(Tail(s), Append(cur, Head(s)), acc)

\* str.split("/")
Split(s) == SplitAcc(s, <<>>, <<>>)

RECURSIVE Join(_)
\* "/".join(parts)
Join(parts) ==
    IF parts = <<>> THEN <<>>
    ELSE IF Len(parts) = 1 THEN Head(parts)
    ELSE Head(parts) \o <<"/">> \o Join(Tail(parts))

\* str.startswith(c) for a one-character c
StartsWith(s, c) == Len(s) > 0 /\ s[1] = c

\* s[1:-1]
Slice1m1(s) == IF Len(s) <= 2 THEN <<>> ELSE SubSeq(s, 2, Len(s) - 1)

\* dict.update
DictUpdate(d, e) ==
    [k \in DOMAIN d \cup DOMAIN e |-> IF k \in DOMAIN e THEN e[k] ELSE d[k]]

EmptyDict == [k \in {} |-> <<>>]

----------------------------------------------------------------------------
(* TopicNode *)

NoCallback == "None"

TopicNode(part, parameter) ==
    [part |-> part, parameter |-> parameter, callback |-> NoCallback, nodes |-> <<>>]

\* the key under which register files a topic part
NodeKey(raw) ==
    IF StartsWith(raw, "+") THEN <<"+">>
    ELSE IF StartsWith(raw, "#") THEN <<"#">>
    ELSE raw

\* the parameter register computes for a topic part
NodeParameter(raw) ==
    IF StartsWith(raw, "+") THEN Some(Slice1m1(raw)) ELSE None

\* try: node = self.nodes[part]  except KeyError: create it
ChildOf(t, self, raw) ==
    LET part == NodeKey(raw)
        child == Append(self, part)
    IN  IF child \in DOMAIN t THEN t
        ELSE [t EXCEPT ![self].nodes = Append(@, part)]
             @@ (child :> TopicNode(Some(part), NodeParameter(raw)))

RECURSIVE TopicNode_register_keep_first(_, _, _, _)
\* register leaving a handler that is already there
TopicNode_register_keep_first(t, self, parts, callback_method) ==
    LET child == Append(self, NodeKey(Head(parts)))
        t1 == ChildOf(t, self, Head(parts))
    IN  IF Len(parts) = 1
        THEN IF t1[child].callback = NoCallback
             THEN [t1 EXCEPT ![child].callback = callback_method]
             ELSE t1
        ELSE TopicNode_register_keep_first(t1, child, Tail(parts), callback_method)

RECURSIVE TopicNode_register(_, _, _, _)
TopicNode_register(t, self, parts, callback_method) ==
    LET child == Append(self, NodeKey(Head(parts)))
        t1 == ChildOf(t, self, Head(parts))
    IN  IF Len(parts) = 1
        THEN [t1 EXCEPT ![child].callback = callback_method]
        ELSE TopicNode_register(t1, child, Tail(parts), callback_method)

\* truthiness of self.parameter: neither None nor ""
ParameterSet(node) == node.parameter # None /\ node.parameter[1] # <<>>

\* check_topic taking the last topic part for a full match whether or not the
\* node has children
check_topic_children_ignored(node, parts) ==
    LET parameters == IF node.part = Some(<<"+">>) /\ ParameterSet(node)
                      THEN (node.parameter[1] :> parts[1])
                      ELSE EmptyDict
        leaf == IF Len(parts) = 1 THEN "FullTopic" ELSE "PartialTopic"
        match == IF node.part = Some(<<"#">>) THEN "FullTopic"
                 ELSE IF node.part = Some(<<"+">>) THEN leaf
                 ELSE IF node.part = Some(parts[1]) THEN leaf
                 ELSE "NoMatch"
    IN  [match |-> match,
         parameters |-> IF node.part = Some(<<"#">>) THEN EmptyDict ELSE parameters]

\* check_topic taking a node without children for a full match whatever is
\* left of the topic
check_topic_any_length(node, parts) ==
    LET parameters == IF node.part = Some(<<"+">>) /\ ParameterSet(node)
                      THEN (node.parameter[1] :> parts[1])
                      ELSE EmptyDict
        leaf == IF node.nodes = <<>> THEN "FullTopic"
                ELSE IF Len(parts) = 1 THEN "NoMatch"
                ELSE "PartialTopic"
        match == IF node.part = Some(<<"#">>) THEN "FullTopic"
                 ELSE IF node.part = Some(<<"+">>) THEN leaf
                 ELSE IF node.part = Some(parts[1]) THEN leaf
                 ELSE "NoMatch"
    IN  [match |-> match,
         parameters |-> IF node.part = Some(<<"#">>) THEN EmptyDict ELSE parameters]

check_topic(node, parts) ==
    LET parameters == IF node.part = Some(<<"+">>) /\ ParameterSet(node)
                      THEN (node.parameter[1] :> parts[1])
                      ELSE EmptyDict
        leaf == IF Len(parts) = 1 /\ node.nodes = <<>> THEN "FullTopic"
                ELSE IF Len(parts) = 1 /\ node.nodes # <<>> THEN "NoMatch"
                ELSE "PartialTopic"
        match == IF node.part = Some(<<"#">>) THEN "FullTopic"
                 ELSE IF node.part = Some(<<"+">>) THEN leaf
                 ELSE IF node.part = Some(parts[1]) THEN leaf
                 ELSE "NoMatch"
    IN  [match |-> match,
         parameters |-> IF node.part = Some(<<"#">>) THEN EmptyDict ELSE parameters]

RECURSIVE TopicNode_get_matching_nodes(_, _, _, _)
RECURSIVE FanOut(_, _, _, _, _)
RECURSIVE FanOutLastFirst(_, _, _, _, _)

\* the children visited from the last registered to the first
FanOutLastFirst(t, self, keys, topic_parts, parameters) ==
    IF keys = <<>> THEN <<>>
    ELSE FanOutLastFirst(t, self, Tail(keys), topic_parts, parameters)
         \o TopicNode_get_matching_nodes(t, Append(self, Head(keys)), topic_parts, parameters)

\* for node in self.nodes.values(): match_nodes.extend(node.get_matching_nodes(..))
FanOut(t, self, keys, topic_parts, parameters) ==
    IF keys = <<>> THEN <<>>
    ELSE TopicNode_get_matching_nodes(t, Append(self, Head(keys)), topic_parts, parameters)
         \o FanOut(t, self, Tail(keys), topic_parts, parameters)

TopicNode_get_matching_nodes(t, self, topic_parts, parameters) ==
    LET node == t[self]
        checked == check_topic(node, topic_parts)
        match == IF node.part = None THEN "RootNode" ELSE checked.match
        local_parameters == IF node.part = None THEN parameters
                            ELSE DictUpdate(parameters, checked.parameters)
    IN  IF match = "FullTopic"
        THEN << [node |-> self, parameters |-> local_parameters, topic |-> None] >>
        ELSE IF match = "PartialTopic"
        THEN FanOut(t, self, node.nodes, Tail(topic_parts), local_parameters)
        ELSE IF match = "RootNode"
        THEN FanOut(t, self, node.nodes, topic_parts, local_parameters)
        ELSE <<>>

----------------------------------------------------------------------------
(* CallbackResolver *)

Root == <<>>

EmptyTrie == (Root :> TopicNode(None, None))

\* self.__nodes.register(topic.split("/"), callback)
CallbackResolver_register(t, topic, callback) ==
    TopicNode_register(t, Root, Split(topic), callback)

RECURSIVE RealTopic(_)
RealTopic(parts) ==
    IF parts = <<>> THEN <<>>
    ELSE <<NodeKey(Head(parts))>> \o RealTopic(Tail(parts))

\* the string register returns
\* register returning the topic as it was given
RewrittenTopicAsGiven(topic) == topic

RewrittenTopic(topic) == Join(RealTopic(Split(topic)))

\* the uncached body of CallbackResolver.get_matching_nodes
MatchList(t, topic) ==
    LET match_list == TopicNode_get_matching_nodes(t, Root, Split(topic), EmptyDict)
    IN  [i \in 1..Len(match_list) |-> [match_list[i] EXCEPT !.topic = Some(topic)]]

\* @lru_cache: the stored list is returned while the topic is cached
CallbackResolver_get_matching_nodes(t, c, topic) ==
    IF topic \in DOMAIN c THEN c[topic] ELSE MatchList(t, topic)

CacheAfter(t, c, topic) ==
    IF topic \in DOMAIN c THEN c ELSE c @@ (topic :> MatchList(t, topic))

\* history of the cache: when the entry of topic was made
MemoAfter(m, c, topic, n) ==
    IF topic \in DOMAIN c THEN m ELSE [m EXCEPT ![topic] = n]

\* callbacks memoized as a whole: a cached topic gets the handlers its nodes
\* had when the entry was made
callbacks_memoized(t, c, topic) ==
    LET topic_matches == CallbackResolver_get_matching_nodes(t, c, topic)
        before == IF topic \in DOMAIN c THEN memoAt[topic] ELSE Len(registered)
        HandlerThen(node) ==
            LET ks == { k \in 1..before : RealTopic(Split(registered[k].topic)) = node }
            IN  IF ks = {} THEN NoCallback
                ELSE registered[CHOOSE k \in ks : \A j \in ks : j <= k].callback
    IN  [i \in 1..Len(topic_matches) |->
            [topic |-> topic_matches[i].topic,
             cb_method |-> HandlerThen(topic_matches[i].node),
             parameters |-> topic_matches[i].parameters]]

callbacks(t, c, topic) ==
    LET topic_matches == CallbackResolver_get_matching_nodes(t, c, topic)
    IN  [i \in 1..Len(topic_matches) |->
            [topic |-> topic_matches[i].topic,
             cb_method |-> t[topic_matches[i].node].callback,
             parameters |-> topic_matches[i].parameters]]

----------------------------------------------------------------------------
(* MQTTClient registration *)

MQTTSubscription(topic, qos) == [topic |-> topic, qos |-> qos]

\* subscribe_topic(topic, qos)
subscribe_topic(subs, topic, qos) == Append(subs, MQTTSubscription(topic, qos))

\* CallbackRunner(): no loop, not ready, its task not created, the queue empty
RunnerInit ==
    /\ runPc = "init"
    /\ loop = None
    /\ ready = FALSE
    /\ task = "none"
    /\ scheduled = <<>>
    /\ queue = <<>>
    /\ running = {}
    /\ nextId = 0
    /\ calledReady = <<>>
    /\ calledNotReady = {}
    /\ started = <<>>
    /\ finished = {}
    /\ raised = {}
    /\ invoked = {}
    /\ peerTask = "none"
    /\ peerStarted = <<>>

\* the transport before connect(): nothing acknowledged, nothing subscribed
TransportInit ==
    /\ connack = FALSE
    /\ subscribeCalls = <<>>
    /\ connacks = 0
    /\ disconnects = 0
    /\ lastConnect = "none"
    /\ backoff = 0
    /\ retries = 0
    /\ waited = 0
    /\ prevRetries = 0

\* MQTTClient(): an empty resolver, no subscriptions, a new runner
ResolverInit ==
    /\ trie = EmptyTrie
    /\ cache = EmptyDict
    /\ memoAt = [T \in Topics |-> -1]
    /\ subscriptions = <<>>
    /\ registered = <<>>
    /\ lastOp = "init"
    /\ lastTopic = <<>>
    /\ lastMatches = <<>>
    /\ lastResult = <<>>
    /\ lastHit = FALSE
    /\ missAt = [T \in Topics |-> -1]
    /\ lookups = 0
    /\ RunnerInit
    /\ TransportInit

\* @client.subscribe(topic, qos) applied to a handler function
Subscribe(topic, qos) ==
    /\ Len(registered) < MaxRegs
    /\ LET wrapper == HandlerNames[Len(registered) + 1]
       IN  /\ trie' = CallbackResolver_register(trie, topic, wrapper)
           /\ subscriptions' = subscribe_topic(subscriptions, RewrittenTopic(topic), qos)
           /\ registered' = Append(registered, [topic |-> topic, callback |-> wrapper])
    /\ lastOp' = "register"
    /\ UNCHANGED <<cache, memoAt, lastTopic, lastMatches, lastResult, lastHit, missAt,
                   lookups>>
    /\ UNCHANGED runnerVars
    /\ UNCHANGED transportVars
    /\ UNCHANGED peerVars

\* topic_map.callbacks(topic)
Callbacks(topic) ==
    /\ lookups < MaxLookups
    /\ lookups' = lookups + 1
    /\ cache' = CacheAfter(trie, cache, topic)
    /\ memoAt' = MemoAfter(memoAt, cache, topic, Len(registered))
    /\ lastOp' = "callbacks"
    /\ lastTopic' = topic
    /\ lastHit' = (topic \in DOMAIN cache)
    /\ lastMatches' = CallbackResolver_get_matching_nodes(trie, cache, topic)
    /\ lastResult' = callbacks(trie, cache, topic)
    /\ missAt' = [missAt EXCEPT ![topic] =
                    IF callbacks(trie, cache, topic) = <<>> THEN Len(registered) ELSE -1]
    /\ UNCHANGED <<trie, subscriptions, registered>>
    /\ UNCHANGED runnerVars
    /\ UNCHANGED transportVars
    /\ UNCHANGED peerVars



\* what a handler may do to the parameters dict it is given
HandlerEdits == {"clear", "set"}
EditedParameters(parameters, edit) ==
    IF edit = "clear" THEN EmptyDict
    ELSE DictUpdate(parameters, (<<"x">> :> <<"e">>))

\* the handler of the i-th request of the last callbacks() call changes the
\* dict it was given: parameters=match.parameters made that dict the one the
\* TopicMatch in the lru_cache holds
HandlerModifies(i, edit) ==
    /\ lastOp = "callbacks"
    /\ i \in 1..Len(lastResult)
    /\ cache' = [cache EXCEPT ![lastTopic][i].parameters = EditedParameters(@, edit)]
    /\ lastOp' = "handler"
    /\ UNCHANGED <<trie, memoAt, subscriptions, registered, lastTopic, lastMatches,
                   lastResult, lastHit, missAt, lookups>>
    /\ UNCHANGED runnerVars
    /\ UNCHANGED transportVars
    /\ UNCHANGED peerVars

ResolverNext ==
    \/ \E topic \in Patterns : Subscribe(topic, 0)
    \/ \E topic \in Topics : Callbacks(topic)

----------------------------------------------------------------------------
(* CallbackRunner: one runner and its process_callbacks task on one asyncio *)
(* loop.  run_callback hands queue.put to the loop with                    *)
(* run_coroutine_threadsafe; the loop runs what it was handed in hand-over *)
(* order, and only while no task holds its thread.                         *)

\* iscoroutinefunction(request.cb_method): the handlers declared async def
Coroutines == {"h2", "h4"}
IsCoroutine(cb_method) == cb_method \in Coroutines

\* run_callback without its ready check
run_callback_unguarded(sched, rdy, lp, item) ==
    IF lp # None THEN Append(sched, item) ELSE sched

\* run_callback: what it leaves in the loop's hand-off list
run_callback(sched, rdy, lp, item) ==
    IF ~rdy THEN sched
    ELSE IF lp # None THEN Append(sched, item)
    ELSE sched

\* a put on a LifoQueue
QueuePutFront(q, item) == <<item>> \o q

\* self.__queue.put(item) on the unbounded asyncio.Queue
QueuePut(q, item) == Append(q, item)

\* request, msg = await self.__queue.get()
QueueGet(q) == Head(q)

\* a get that leaves the request in the queue
QueuePeeked(q) == q

QueueAfterGet(q) == Tail(q)

\* the handler's coroutine handed to the loop instead of awaited
InvokeWithoutAwait(cb_method) == IF IsCoroutine(cb_method) THEN "get" ELSE "handler"

\* where process_callbacks stands once it has called the handler: inside the
\* call (a plain function) or at the await of its coroutine
InvokeHandler(cb_method) == "handler"

\* where process_callbacks stands once the handler has raised: nothing
\* catches the exception, the task ends
AfterRaise(cb_method) == "dead"

\* a reconnect() that gives the loop's thread back between attempts
InTransportLoopPollOnly == runPc = "polling"

\* run() is inside self.__client.loop(): in the poll itself, or in the
\* on_disconnect the poll called, which stays in reconnect()
InTransportLoop == runPc \in {"polling", "reconnecting"}

\* the event loop's thread is free for another task to run
LoopFree ==
    /\ ~InTransportLoop
    /\ \A item \in running : IsCoroutine(item.request.cb_method)

\* the payloads json.loads accepts, and what it returns for them
JsonDocuments == {"{}"}
json_loads(message) == IF message \in JsonDocuments THEN Some(EmptyDict) ELSE None

\* subscribe(..., raw_payload=True): the wrapper passes the payload on undecoded
RawPayload == {"h3"}
ConvertJson(cb_method) == cb_method \notin RawPayload

\* the wrapper without its except clause around json.loads
WrapperWithoutExcept(cb_method, msg) ==
    IF ConvertJson(cb_method) /\ json_loads(msg.message) = None THEN "raised" ELSE "invoked"

\* the decorator's wrapper: with convert_json a payload json.loads rejects is
\* logged and the wrapper returns; otherwise the user's function is called
Wrapper(cb_method, msg) ==
    IF ConvertJson(cb_method) /\ json_loads(msg.message) = None THEN "dismissed" ELSE "invoked"

Item(id, request, msg) == [id |-> id, request |-> request, msg |-> msg]

MQTTMessage(topic, message) == [topic |-> topic, message |-> message]

RECURSIVE RunCallbacksReversed(_, _, _, _, _, _)
\* the requests handed over from the last to the first
RunCallbacksReversed(sched, rdy, lp, requests, msg, id) ==
    IF requests = <<>> THEN sched
    ELSE run_callback(RunCallbacksReversed(sched, rdy, lp, Tail(requests), msg, id + 1),
                      rdy, lp, Item(id, Head(requests), msg))

RECURSIVE RunCallbacks(_, _, _, _, _, _)
\* for cb in requests: self.__cb_runner.run_callback(cb, msg), ids from id on
RunCallbacks(sched, rdy, lp, requests, msg, id) ==
    IF requests = <<>> THEN sched
    ELSE RunCallbacks(run_callback(sched, rdy, lp, Item(id, Head(requests), msg)),
                      rdy, lp, Tail(requests), msg, id + 1)

IdsFrom(id, n) == [i \in 1..n |-> id + i - 1]

\* the history of n run_callback calls made in one go
NoteCalls(n) ==
    /\ nextId' = nextId + n
    /\ calledReady' = IF ready THEN calledReady \o IdsFrom(nextId + 1, n) ELSE calledReady
    /\ calledNotReady' = IF ready THEN calledNotReady
                         ELSE calledNotReady \cup {nextId + i : i \in 1..n}

----------------------------------------------------------------------------
(* MQTTClient.run and the transport callbacks *)

Payloads == {"{}"}

\* payloads of a client whose publishers also send what is no JSON document
JsonPayloads == {"{}", "{"}

\* the topics of inbound messages
MessageTopics == { <<"a", "/", "b">>, <<"a", "/", "b", "/", "c">> }

\* the decorators applied before run()
StartupSubscriptions == << <<"a", "/", "b">>, <<"a", "/", "#">> >>

RECURSIVE RegisterAll(_, _, _)
RegisterAll(t, topics, n) ==
    IF topics = <<>> THEN t
    ELSE RegisterAll(CallbackResolver_register(t, Head(topics), HandlerNames[n]),
                     Tail(topics), n + 1)

Init ==
    /\ trie = RegisterAll(EmptyTrie, StartupSubscriptions, 1)
    /\ cache = EmptyDict
    /\ memoAt = [T \in Topics |-> -1]
    /\ subscriptions = [i \in 1..Len(StartupSubscriptions) |->
                           MQTTSubscription(RewrittenTopic(StartupSubscriptions[i]), 0)]
    /\ registered = [i \in 1..Len(StartupSubscriptions) |->
                        [topic |-> StartupSubscriptions[i], callback |-> HandlerNames[i]]]
    /\ lastOp = "init"
    /\ lastTopic = <<>>
    /\ lastMatches = <<>>
    /\ lastResult = <<>>
    /\ lastHit = FALSE
    /\ missAt = [T \in Topics |-> -1]
    /\ lookups = 0
    /\ RunnerInit
    /\ TransportInit

\* a run() that creates the consumer task before it connects
RunConnectAfterTask ==
    /\ runPc = "init"
    /\ runPc' = "connecting"
    /\ loop' = Some("loop")
    /\ task' = "created"
    /\ UNCHANGED <<ready, scheduled, queue, running, nextId,
                   calledReady, calledNotReady, started, finished, raised, invoked>>
    /\ UNCHANGED resolverVars
    /\ UNCHANGED transportVars
    /\ UNCHANGED peerVars

\* run(): await loop.run_in_executor(None, self.__client.connect, host, port)
RunConnect ==
    /\ runPc = "init"
    /\ runPc' = "connecting"
    /\ UNCHANGED <<loop, ready, task, scheduled, queue, running, nextId,
                   calledReady, calledNotReady, started, finished, raised, invoked>>
    /\ UNCHANGED resolverVars
    /\ UNCHANGED transportVars
    /\ UNCHANGED peerVars

\* a run() that creates the consumer task without giving the runner its loop
ConnectOkWithoutLoop ==
    /\ runPc = "connecting"
    /\ task' = "created"
    /\ runPc' = "polling"
    /\ lastConnect' = "ok"
    /\ connack' = TRUE
    /\ UNCHANGED <<loop, ready, scheduled, queue, running, nextId,
                   calledReady, calledNotReady, started, finished, raised, invoked>>
    /\ UNCHANGED resolverVars
    /\ UNCHANGED <<subscribeCalls, connacks, disconnects, backoff, retries, waited, prevRetries>>
    /\ UNCHANGED peerVars

\* the connect returned: set the runner's loop, create the consumer task and
\* enter the first self.__client.loop(timeout=1.0)
ConnectOk ==
    /\ runPc = "connecting"
    /\ loop' = Some("loop")
    /\ task' = "created"
    /\ runPc' = "polling"
    /\ lastConnect' = "ok"
    /\ connack' = TRUE
    /\ UNCHANGED <<ready, scheduled, queue, running, nextId,
                   calledReady, calledNotReady, started, finished, raised, invoked>>
    /\ UNCHANGED resolverVars
    /\ UNCHANGED <<subscribeCalls, connacks, disconnects, backoff, retries, waited, prevRetries>>
    /\ UNCHANGED peerVars

\* the connect raised: run() ends with the exception
ConnectFail ==
    /\ runPc = "connecting"
    /\ runPc' = "failed"
    /\ lastConnect' = "error"
    /\ UNCHANGED <<loop, ready, task, scheduled, queue, running, nextId,
                   calledReady, calledNotReady, started, finished, raised, invoked>>
    /\ UNCHANGED resolverVars
    /\ UNCHANGED <<connack, subscribeCalls, connacks, disconnects, backoff, retries, waited,
                   prevRetries>>
    /\ UNCHANGED peerVars

\* on_message, called by the transport inside self.__client.loop(), in a run
\* of at most limit run_callback calls
OnMessageWithin(limit, topic, payload) ==
    /\ runPc = "polling"
    /\ LET requests == callbacks(trie, cache, topic)
           msg == MQTTMessage(topic, payload)
       IN  /\ nextId + Len(requests) <= limit
           /\ scheduled' = RunCallbacks(scheduled, ready, loop, requests, msg, nextId + 1)
           /\ NoteCalls(Len(requests))
    /\ cache' = CacheAfter(trie, cache, topic)
    /\ memoAt' = MemoAfter(memoAt, cache, topic, Len(registered))
    /\ UNCHANGED <<runPc, loop, ready, task, queue, running, started, finished, raised, invoked>>
    /\ UNCHANGED <<trie, subscriptions, registered>>
    /\ UNCHANGED lookupVars
    /\ UNCHANGED transportVars
    /\ UNCHANGED peerVars

OnMessage(topic, payload) == OnMessageWithin(MaxCalls, topic, payload)

\* on_connect without the test for an empty list
on_connect_unconditional(subs) ==
    << [i \in 1..Len(subs) |-> <<subs[i].topic, subs[i].qos>>] >>

\* on_connect: the subscribe calls it makes for the subscriptions it finds
on_connect(subs) ==
    LET subscription_list == [i \in 1..Len(subs) |-> <<subs[i].topic, subs[i].qos>>]
    IN  IF subscription_list # <<>> THEN << subscription_list >> ELSE <<>>

\* the transport hands the CONNACK to on_connect inside self.__client.loop()
OnConnect ==
    /\ runPc = "polling"
    /\ connack
    /\ connack' = FALSE
    /\ connacks' = connacks + 1
    /\ subscribeCalls' = subscribeCalls \o on_connect(subscriptions)
    /\ UNCHANGED <<disconnects, lastConnect, backoff, retries, waited, prevRetries>>
    /\ UNCHANGED runnerVars
    /\ UNCHANGED resolverVars
    /\ UNCHANGED peerVars

\* self.__backoff_time, set in __init__ and never assigned again
BackoffTime == 1
\* the cap in min(60, ...)
BackoffCap == 60
\* uniform(0, 1), at its two ends
Jitter == {0, 1}

Min(a, b) == IF a <= b THEN a ELSE b

\* the backoff without its cap
NextBackoffUncapped(b, jitter) == b * 2 + jitter

\* backoff = min(60, backoff * 2 + uniform(0, 1))
NextBackoff(b, jitter) == Min(BackoffCap, b * 2 + jitter)

\* time.sleep(self.__backoff_time)
SleepTime(b) == BackoffTime

\* a reconnect() that lets the exception of connect() out
ConnectErrorPropagates == "failed"

\* where run() stands after connect() raised inside reconnect(): the except
\* clause caught it and the while loop goes on
AfterConnectError == "reconnecting"

\* an on_disconnect that clears the subscription list before it reconnects
OnDisconnectClearing ==
    /\ runPc = "polling"
    /\ disconnects < MaxDisconnects
    /\ disconnects' = disconnects + 1
    /\ runPc' = "reconnecting"
    /\ connack' = FALSE
    /\ backoff' = BackoffTime
    /\ retries' = 0
    /\ prevRetries' = retries
    /\ waited' = 0
    /\ subscriptions' = <<>>
    /\ UNCHANGED <<subscribeCalls, connacks, lastConnect>>
    /\ UNCHANGED <<loop, ready, task, scheduled, queue, running, nextId,
                   calledReady, calledNotReady, started, finished, raised, invoked>>
    /\ UNCHANGED <<trie, cache, memoAt, registered, lastOp, lastTopic,
                   lastMatches, lastResult, lastHit, missAt, lookups>>
    /\ UNCHANGED peerVars

\* an on_disconnect whose reconnect() goes on from the backoff the reconnect()
\* before it reached
OnDisconnectBackoffKept ==
    /\ runPc = "polling"
    /\ disconnects < MaxDisconnects
    /\ disconnects' = disconnects + 1
    /\ runPc' = "reconnecting"
    /\ connack' = FALSE
    /\ backoff' = IF disconnects = 0 THEN BackoffTime ELSE Min(BackoffCap, 2 ^ retries)
    /\ retries' = 0
    /\ prevRetries' = retries
    /\ waited' = 0
    /\ UNCHANGED <<subscribeCalls, connacks, lastConnect>>
    /\ UNCHANGED <<loop, ready, task, scheduled, queue, running, nextId,
                   calledReady, calledNotReady, started, finished, raised, invoked>>
    /\ UNCHANGED resolverVars
    /\ UNCHANGED peerVars

\* the transport lost the connection: on_disconnect, called inside
\* self.__client.loop(), enters reconnect()
OnDisconnect ==
    /\ runPc = "polling"
    /\ disconnects < MaxDisconnects
    /\ disconnects' = disconnects + 1
    /\ runPc' = "reconnecting"
    /\ connack' = FALSE
    /\ backoff' = BackoffTime
    /\ retries' = 0
    /\ prevRetries' = retries
    /\ waited' = 0
    /\ UNCHANGED <<subscribeCalls, connacks, lastConnect>>
    /\ UNCHANGED <<loop, ready, task, scheduled, queue, running, nextId,
                   calledReady, calledNotReady, started, finished, raised, invoked>>
    /\ UNCHANGED resolverVars
    /\ UNCHANGED peerVars

\* reconnect(): self.connect() raised; sleep, compute the next backoff, loop
ReconnectFail(jitter) ==
    /\ runPc = "reconnecting"
    /\ retries < MaxRetries
    /\ lastConnect' = "error"
    /\ retries' = retries + 1
    /\ waited' = SleepTime(backoff)
    /\ backoff' = NextBackoff(backoff, jitter)
    /\ runPc' = AfterConnectError
    /\ UNCHANGED <<connack, subscribeCalls, connacks, disconnects, prevRetries>>
    /\ UNCHANGED <<loop, ready, task, scheduled, queue, running, nextId,
                   calledReady, calledNotReady, started, finished, raised, invoked>>
    /\ UNCHANGED resolverVars
    /\ UNCHANGED peerVars

\* reconnect(): self.connect() returned; break, and on_disconnect returns
\* into self.__client.loop()
ReconnectOk ==
    /\ runPc = "reconnecting"
    /\ lastConnect' = "ok"
    /\ connack' = TRUE
    /\ backoff' = 0
    /\ waited' = 0
    /\ runPc' = "polling"
    /\ UNCHANGED <<subscribeCalls, connacks, disconnects, retries, prevRetries>>
    /\ UNCHANGED <<loop, ready, task, scheduled, queue, running, nextId,
                   calledReady, calledNotReady, started, finished, raised, invoked>>
    /\ UNCHANGED resolverVars
    /\ UNCHANGED peerVars

\* self.__client.loop() returned: await asyncio.sleep(0.1)
PollReturn ==
    /\ runPc = "polling"
    /\ runPc' = "sleeping"
    /\ UNCHANGED <<loop, ready, task, scheduled, queue, running, nextId,
                   calledReady, calledNotReady, started, finished, raised, invoked>>
    /\ UNCHANGED resolverVars
    /\ UNCHANGED transportVars
    /\ UNCHANGED peerVars

\* the sleep is over: the next self.__client.loop(timeout=1.0)
RunWake ==
    /\ runPc = "sleeping"
    /\ LoopFree
    /\ runPc' = "polling"
    /\ UNCHANGED <<loop, ready, task, scheduled, queue, running, nextId,
                   calledReady, calledNotReady, started, finished, raised, invoked>>
    /\ UNCHANGED resolverVars
    /\ UNCHANGED transportVars
    /\ UNCHANGED peerVars

\* run_callback called from a thread other than the loop's
ThreadRunCallback(cb_method, topic, payload) ==
    /\ nextId < MaxCalls
    /\ LET request == [topic |-> Some(topic), cb_method |-> cb_method,
                       parameters |-> EmptyDict]
       IN  scheduled' = run_callback(scheduled, ready, loop,
                                     Item(nextId + 1, request, MQTTMessage(topic, payload)))
    /\ NoteCalls(1)
    /\ UNCHANGED <<runPc, loop, ready, task, queue, running, started, finished, raised, invoked>>
    /\ UNCHANGED resolverVars
    /\ UNCHANGED transportVars
    /\ UNCHANGED peerVars

\* the loop runs one handed-over queue.put coroutine
RunPut ==
    /\ scheduled # <<>>
    /\ LoopFree
    /\ queue' = QueuePut(queue, Head(scheduled))
    /\ scheduled' = Tail(scheduled)
    /\ UNCHANGED <<runPc, loop, ready, task, running, nextId,
                   calledReady, calledNotReady, started, finished, raised, invoked>>
    /\ UNCHANGED resolverVars
    /\ UNCHANGED transportVars
    /\ UNCHANGED peerVars

\* process_callbacks begins: self.__ready = True, then the first queue.get()
ProcessStart ==
    /\ task = "created"
    /\ LoopFree
    /\ ready' = TRUE
    /\ task' = "get"
    /\ UNCHANGED <<runPc, loop, scheduled, queue, running, nextId,
                   calledReady, calledNotReady, started, finished, raised, invoked>>
    /\ UNCHANGED resolverVars
    /\ UNCHANGED transportVars
    /\ UNCHANGED peerVars

\* process_callbacks: queue.get() returns a request and its handler is called
ProcessGet ==
    /\ task = "get"
    /\ queue # <<>>
    /\ LoopFree
    /\ LET item == QueueGet(queue)
       IN  /\ running' = running \cup {item}
           /\ started' = Append(started, item.id)
           /\ task' = InvokeHandler(item.request.cb_method)
           /\ invoked' = IF Wrapper(item.request.cb_method, item.msg) = "invoked"
                         THEN invoked \cup {item.id} ELSE invoked
    /\ queue' = QueueAfterGet(queue)
    /\ UNCHANGED <<runPc, loop, ready, scheduled, nextId,
                   calledReady, calledNotReady, finished, raised>>
    /\ UNCHANGED resolverVars
    /\ UNCHANGED transportVars
    /\ UNCHANGED peerVars

\* the wrapper returns: the user's function returned, or the payload was dismissed
HandlerReturn(item) ==
    /\ item \in running
    /\ ~InTransportLoop
    /\ Wrapper(item.request.cb_method, item.msg) # "raised"
    /\ running' = running \ {item}
    /\ finished' = finished \cup {item.id}
    /\ task' = IF task = "handler" THEN "get" ELSE task
    /\ UNCHANGED <<runPc, loop, ready, scheduled, queue, nextId,
                   calledReady, calledNotReady, started, raised, invoked>>
    /\ UNCHANGED resolverVars
    /\ UNCHANGED transportVars
    /\ UNCHANGED peerVars

\* the user's function raises, and the wrapper with it
HandlerRaise(item) ==
    /\ item \in running
    /\ ~InTransportLoop
    /\ Wrapper(item.request.cb_method, item.msg) # "dismissed"
    /\ running' = running \ {item}
    /\ raised' = raised \cup {item.id}
    /\ task' = IF task = "handler" THEN AfterRaise(item.request.cb_method) ELSE task
    /\ UNCHANGED <<runPc, loop, ready, scheduled, queue, nextId,
                   calledReady, calledNotReady, started, finished, invoked>>
    /\ UNCHANGED resolverVars
    /\ UNCHANGED transportVars
    /\ UNCHANGED peerVars

\* a second MQTTClient in the process, on the same event loop: its run() has
\* connected and created the process_callbacks task of its own runner
PeerCreateTask ==
    /\ peerTask = "none"
    /\ LoopFree
    /\ peerTask' = "created"
    /\ UNCHANGED peerStarted
    /\ UNCHANGED runnerVars
    /\ UNCHANGED resolverVars
    /\ UNCHANGED transportVars

\* the second runner's process_callbacks begins and waits in queue.get():
\* __queue is a class attribute, one asyncio.Queue for every CallbackRunner
PeerProcessStart ==
    /\ peerTask = "created"
    /\ LoopFree
    /\ peerTask' = "get"
    /\ UNCHANGED peerStarted
    /\ UNCHANGED runnerVars
    /\ UNCHANGED resolverVars
    /\ UNCHANGED transportVars

\* the second runner's queue.get() returns a request and calls its handler; a
\* function handler has returned when the step ends, a coroutine is awaited
PeerProcessGet ==
    /\ peerTask = "get"
    /\ queue # <<>>
    /\ LoopFree
    /\ LET item == QueueGet(queue)
       IN  /\ peerStarted' = Append(peerStarted, item.id)
           /\ peerTask' = IF IsCoroutine(item.request.cb_method) THEN "handler" ELSE "get"
    /\ queue' = QueueAfterGet(queue)
    /\ UNCHANGED <<runPc, loop, ready, task, scheduled, running, nextId,
                   calledReady, calledNotReady, started, finished, raised, invoked>>
    /\ UNCHANGED resolverVars
    /\ UNCHANGED transportVars

\* the coroutine the second runner awaits returns
PeerHandlerReturn ==
    /\ peerTask = "handler"
    /\ LoopFree
    /\ peerTask' = "get"
    /\ UNCHANGED peerStarted
    /\ UNCHANGED runnerVars
    /\ UNCHANGED resolverVars
    /\ UNCHANGED transportVars

Next ==
    \/ RunConnect
    \/ ConnectOk
    \/ ConnectFail
    \/ \E topic \in MessageTopics, payload \in Payloads : OnMessage(topic, payload)
    \/ PollReturn
    \/ RunWake
    \/ \E cb_method \in {"h1", "h2"}, payload \in Payloads :
          ThreadRunCallback(cb_method, <<"a", "/", "b">>, payload)
    \/ RunPut
    \/ ProcessStart
    \/ ProcessGet
    \/ \E item \in running : HandlerReturn(item)
    \/ \E item \in running : HandlerRaise(item)

\* the same client with payloads that are no JSON
JsonNext ==
    \/ RunConnect
    \/ ConnectOk
    \/ ConnectFail
    \/ \E topic \in MessageTopics, payload \in JsonPayloads : OnMessage(topic, payload)
    \/ PollReturn
    \/ RunWake
    \/ \E payload \in JsonPayloads : ThreadRunCallback("h3", <<"a", "/", "b">>, payload)
    \/ RunPut
    \/ ProcessStart
    \/ ProcessGet
    \/ \E item \in running : HandlerReturn(item)
    \/ \E item \in running : HandlerRaise(item)

\* patterns with '#' before the end and with segments that only begin like a
\* wildcard
WildPatterns ==
    { <<"a", "/", "#", "/", "b">>,
      <<"#", "x">>,
      <<"+", "x">>,
      <<"a", "/", "b">>,
      <<"a", "/", "+", "x", "+", "/", "c">> }

\* the resolver with those patterns
WildNext ==
    \/ \E topic \in WildPatterns : Subscribe(topic, 0)
    \/ \E topic \in Topics : Callbacks(topic)

\* the client fed by the transport alone
DispatchNext ==
    \/ RunConnect
    \/ ConnectOk
    \/ ConnectFail
    \/ \E topic \in MessageTopics, payload \in Payloads : OnMessage(topic, payload)
    \/ PollReturn
    \/ RunWake
    \/ RunPut
    \/ ProcessStart
    \/ ProcessGet
    \/ \E item \in running : HandlerReturn(item)
    \/ \E item \in running : HandlerRaise(item)

\* two clients on one event loop; the messages are the first client's
TwoClientsNext ==
    \/ RunConnect
    \/ ConnectOk
    \/ ConnectFail
    \/ \E topic \in MessageTopics, payload \in Payloads : OnMessage(topic, payload)
    \/ PollReturn
    \/ RunWake
    \/ RunPut
    \/ ProcessStart
    \/ ProcessGet
    \/ \E item \in running : HandlerReturn(item)
    \/ \E item \in running : HandlerRaise(item)
    \/ PeerCreateTask
    \/ PeerProcessStart
    \/ PeerProcessGet
    \/ PeerHandlerReturn

\* patterns with named wildcards: on sibling branches, and one that binds
\* the same name twice
ParamPatterns ==
    { <<"a", "/", "+", "x", "+", "/", "c">>,
      <<"a", "/", "b", "/", "+", "y", "+">>,
      <<"+", "z", "+", "/", "b", "/", "d">>,
      <<"a", "/", "+", "x", "+", "/", "+", "x", "+">> }

\* the resolver with those patterns and handlers that change their parameters
ParamNext ==
    \/ \E topic \in ParamPatterns : Subscribe(topic, 0)
    \/ \E topic \in Topics : Callbacks(topic)
    \/ \E i \in 1..MaxRegs, edit \in HandlerEdits : HandlerModifies(i, edit)

\* the patterns and qos of decorators applied at any time
ClientPatterns == { <<"a", "/", "b">>, <<"a", "/", "+", "x", "+", "/", "c">>, <<"a", "/", "#">> }
ClientQos == {0, 1}

\* the client with its subscriptions and its connection: decorators at any
\* time, CONNACKs, lost connections that reconnect() restores at once
ClientNext ==
    \/ \E topic \in ClientPatterns, qos \in ClientQos : Subscribe(topic, qos)
    \/ RunConnect
    \/ ConnectOk
    \/ ConnectFail
    \/ OnConnect
    \/ OnDisconnect
    \/ ReconnectOk
    \/ PollReturn
    \/ RunWake

\* run() with a connection that is lost and a broker that refuses attempts
RunNext ==
    \/ RunConnect
    \/ ConnectOk
    \/ ConnectFail
    \/ OnConnect
    \/ OnDisconnect
    \/ \E jitter \in Jitter : ReconnectFail(jitter)
    \/ ReconnectOk
    \/ \E topic \in MessageTopics, payload \in Payloads :
          OnMessageWithin(MaxClientCalls, topic, payload)
    \/ PollReturn
    \/ RunWake
    \/ RunPut
    \/ ProcessStart
    \/ ProcessGet
    \/ \E item \in running : HandlerReturn(item)
    \/ \E item \in running : HandlerRaise(item)

----------------------------------------------------------------------------
(* Specifications *)

\* the client from construction through run()
Spec == Init /\ [][Next]_vars

\* the resolver alone: registrations and lookups in any order
SpecResolver == ResolverInit /\ [][ResolverNext]_vars

\* the event loop runs every task that stays or keeps becoming runnable, the
\* transport poll returns within its timeout, and a handler that has begun ends
Fairness ==
    /\ WF_vars(PollReturn)
    /\ WF_vars(RunWake)
    /\ SF_vars(RunPut)
    /\ SF_vars(ProcessStart)
    /\ SF_vars(ProcessGet)
    /\ SF_vars(\E item \in running : HandlerReturn(item) \/ HandlerRaise(item))

SpecFair == Init /\ [][Next]_vars /\ Fairness

\* the client with payloads that are no JSON
SpecJson == Init /\ [][JsonNext]_vars

\* a client constructed without decorators, with its connection
SpecClient == ResolverInit /\ [][ClientNext]_vars

\* run() through lost connections and refused attempts
SpecRun == Init /\ [][RunNext]_vars

\* the resolver with patterns that stretch the wildcard syntax
SpecWild == ResolverInit /\ [][WildNext]_vars

\* the client whose run_callback calls all come from on_message
SpecDispatch == Init /\ [][DispatchNext]_vars

\* the resolver with named wildcards and handlers that change their parameters
SpecParams == ResolverInit /\ [][ParamNext]_vars

\* two clients in one process, run on the same event loop
SpecTwoClients == Init /\ [][TwoClientsNext]_vars

----------------------------------------------------------------------------
(* Properties of the callback runner *)

Range(seq) == {seq[i] : i \in 1..Len(seq)}
Ids(items) == {items[i].id : i \in 1..Len(items)}

\* C1: the consumer begins the handlers in exactly the order of the
\* run_callback calls made while it was ready: the ids of the handlers begun
\* so far are a prefix of the ids of those calls, in call order.
C1_FifoOrder ==
    /\ Len(started) <= Len(calledReady)
    /\ \A i \in 1..Len(started) : started[i] = calledReady[i]

C1_Witness ==
    /\ Len(started) >= 3
    /\ started = calledReady

\* C2: handler invocations never overlap: after every step at most one handler
\* has begun and not ended, and a handler is begun only in a state where none
\* is in progress, so a handler that does not end keeps every later request
\* from being dequeued.
C2_HandlersNeverOverlap ==
    [][ /\ Cardinality(running') <= 1
        /\ (started' # started => running = {})
        /\ (running # {} => Len(queue') >= Len(queue)) ]_vars

C2_Witness ==
    /\ \E item \in running : IsCoroutine(item.request.cb_method)
    /\ queue # <<>>
    /\ runPc = "sleeping"
    /\ finished # {}

\* C3: a handler that raises does not end the consumer loop: after any handler
\* has raised, the loop is still at its queue.get() or inside a later handler.
C3_RaiseDoesNotEndLoop ==
    raised # {} => task \in {"get", "handler"}

\* C4: a run_callback call made while ready is false drops its request: the
\* request is neither handed to the loop nor put in the queue, and its handler
\* is never begun, also after the consumer has become ready.
C4_DroppedBeforeReady ==
    \A id \in calledNotReady :
        /\ id \notin Ids(scheduled)
        /\ id \notin Ids(queue)
        /\ id \notin {item.id : item \in running}
        /\ id \notin Range(started)

C4_Witness ==
    /\ calledNotReady # {}
    /\ loop # None
    /\ ready
    /\ started # <<>>
    /\ queue # <<>>

----------------------------------------------------------------------------
(* Properties of the resolver *)

\* the trie node a registered pattern ends at
PatternNode(pattern) == RealTopic(Split(pattern))

\* the handler a registered pattern's node holds now
PatternHandler(pattern) == trie[PatternNode(pattern)].callback

IsLiteralPart(part) == ~StartsWith(part, "+") /\ ~StartsWith(part, "#")
IsLiteral(pattern) == \A part \in Range(Split(pattern)) : IsLiteralPart(part)

\* a part of the form +name+ with a non-empty name
IsNamedPlus(part) ==
    Len(part) >= 3 /\ part[1] = "+" /\ part[Len(part)] = "+"

IsPrefix(p, s) == Len(p) <= Len(s) /\ SubSeq(s, 1, Len(p)) = p

RECURSIVE PatternMatches(_, _)
\* the pattern syntax of the interface: '#' as the final segment matches any
\* remaining depth, zero included; '+' and '+name+' match exactly one segment
PatternMatches(pparts, tparts) ==
    IF pparts = <<>> THEN tparts = <<>>
    ELSE IF Head(pparts) = <<"#">> /\ Len(pparts) = 1 THEN TRUE
    ELSE IF tparts = <<>> THEN FALSE
    ELSE /\ (StartsWith(Head(pparts), "+") \/ Head(pparts) = Head(tparts))
         /\ PatternMatches(Tail(pparts), Tail(tparts))

\* the last operation was a callbacks() call that walked the trie
FreshLookup == lastOp = "callbacks" /\ ~lastHit

MatchedNodes == {lastMatches[i].node : i \in 1..Len(lastMatches)}

\* C5: a pattern registered after callbacks(T) returned no match is visible to
\* the next callbacks(T): when the trie as it stands matches T at the node of
\* a pattern registered since, the call returns that node's handler.
C5_NewPatternVisible ==
    [][ \A k \in 1..Len(registered) :
           ( /\ lookups' = lookups + 1
             /\ missAt[lastTopic'] >= 0
             /\ k > missAt[lastTopic']
             /\ \E i \in 1..Len(MatchList(trie, lastTopic')) :
                    MatchList(trie, lastTopic')[i].node = PatternNode(registered[k].topic) )
           => \E i \in 1..Len(lastResult') :
                    lastResult'[i].cb_method = PatternHandler(registered[k].topic) ]_vars

\* C7: a registered pattern P/# with literal P matches the topic P itself and
\* every topic below P, and no topic that does not start with P.
C7_HashMatchesPrefixAndBelow ==
    FreshLookup =>
        \A k \in 1..Len(registered) :
            LET pparts == Split(registered[k].topic)
                prefix == SubSeq(pparts, 1, Len(pparts) - 1)
            IN  (pparts[Len(pparts)] = <<"#">> /\ \A part \in Range(prefix) : IsLiteralPart(part))
                => ( IsPrefix(prefix, Split(lastTopic))
                     <=> PatternNode(registered[k].topic) \in MatchedNodes )

\* C8: when only literal patterns are registered, callbacks(T) for a registered
\* literal topic T returns exactly one request, carrying the handler registered
\* for T.
C8_LiteralLookupExact ==
    ( /\ FreshLookup
      /\ \A k \in 1..Len(registered) : IsLiteral(registered[k].topic)
      /\ \E k \in 1..Len(registered) : registered[k].topic = lastTopic )
    => /\ Len(lastResult) = 1
       /\ lastResult[1].cb_method = PatternHandler(lastTopic)
       /\ PatternHandler(lastTopic) # NoCallback

\* C9: when the pattern whose handler is called has '+name+' at segment
\* position i, the parameters passed with it bind name to the topic's segment i.
C9_NamedWildcardBinds ==
    FreshLookup =>
        \A m \in 1..Len(lastMatches), k \in 1..Len(registered) :
            ( /\ PatternNode(registered[k].topic) = lastMatches[m].node
              /\ registered[k].callback = lastResult[m].cb_method )
            => \A i \in 1..Len(Split(registered[k].topic)) :
                  LET part == Split(registered[k].topic)[i]
                      name == Slice1m1(part)
                  IN  IsNamedPlus(part) =>
                        /\ name \in DOMAIN lastResult[m].parameters
                        /\ lastResult[m].parameters[name] = Split(lastTopic)[i]

\* C10: callbacks(topic) returns exactly one entry per distinct registered
\* pattern that matches the topic.
C10_OneEntryPerMatchingPattern ==
    FreshLookup =>
        Len(lastResult) =
            Cardinality({ PatternNode(registered[k].topic) : k \in
                { j \in 1..Len(registered) :
                    PatternMatches(Split(registered[j].topic), Split(lastTopic)) } })

HasNoHash(pattern) == "#" \notin Range(pattern)

\* C11: a registered pattern without '#' never matches a topic that has more
\* segments than the pattern: no lookup of such a topic returns the handler
\* registered under the pattern
C11_NoMatchBelowPatternWithoutHash ==
    lastOp = "callbacks" =>
        \A k \in 1..Len(registered) :
            ( /\ HasNoHash(registered[k].topic)
              /\ Len(Split(lastTopic)) > Len(Split(registered[k].topic)) )
            => \A i \in 1..Len(lastResult) :
                  lastResult[i].cb_method # registered[k].callback

\* only "a/b" is registered and callbacks("a/b/c") returned nothing
C11_Witness ==
    /\ lastOp = "callbacks"
    /\ registered = << [topic |-> <<"a", "/", "b">>, callback |-> "h1"] >>
    /\ lastTopic = <<"a", "/", "b", "/", "c">>
    /\ lastResult = <<>>

\* C20: the memoized get_matching_nodes(T) returns the match list an uncached
\* match of T against the current trie returns
C20_MemoizedEqualsUncached ==
    lastOp = "callbacks" => lastMatches = MatchList(trie, lastTopic)

----------------------------------------------------------------------------
(* Properties of the client: subscriptions and the transport *)

\* a filter whose wildcard segments are bare
IsCanonical(filter) ==
    \A part \in Range(Split(filter)) :
        /\ StartsWith(part, "+") => part = <<"+">>
        /\ StartsWith(part, "#") => part = <<"#">>

\* filter is pattern with every wildcard segment made bare and nothing else changed
CanonicalOf(pattern, filter) ==
    LET pparts == Split(pattern)
        fparts == Split(filter)
    IN  /\ Len(fparts) = Len(pparts)
        /\ \A i \in 1..Len(pparts) :
              fparts[i] = IF StartsWith(pparts[i], "+") THEN <<"+">>
                          ELSE IF StartsWith(pparts[i], "#") THEN <<"#">>
                          ELSE pparts[i]

\* C12: the subscription list holds, for every decorated pattern, the pattern
\* with its wildcard segments bare, and no filter given to the transport's
\* subscribe holds a parameter name
C12_CanonicalFiltersOnly ==
    /\ Len(subscriptions) = Len(registered)
    /\ \A i \in 1..Len(registered) :
          CanonicalOf(registered[i].topic, subscriptions[i].topic)
    /\ \A c \in 1..Len(subscribeCalls) : \A e \in 1..Len(subscribeCalls[c]) :
          IsCanonical(subscribeCalls[c][e][1])

\* "a/+x+/c" was decorated and "a/+/c" was given to the transport
C12_Witness ==
    /\ \E i \in 1..Len(registered) :
          registered[i].topic = <<"a", "/", "+", "x", "+", "/", "c">>
    /\ \E c \in 1..Len(subscribeCalls) : \E e \in 1..Len(subscribeCalls[c]) :
          subscribeCalls[c][e][1] = <<"a", "/", "+", "/", "c">>

\* C13: every on_connect makes exactly one subscribe call, carrying every
\* subscription of the list in order; with an empty list it makes none and
\* run() stays in its poll
C13_OneBatchedSubscribePerConnack ==
    [][ connacks' = connacks + 1 =>
          IF subscriptions = <<>>
          THEN subscribeCalls' = subscribeCalls /\ runPc' = "polling"
          ELSE /\ Len(subscribeCalls') = Len(subscribeCalls) + 1
               /\ SubSeq(subscribeCalls', 1, Len(subscribeCalls)) = subscribeCalls
               /\ subscribeCalls'[Len(subscribeCalls')] =
                     [i \in 1..Len(subscriptions) |->
                         <<subscriptions[i].topic, subscriptions[i].qos>>]
               /\ runPc' = "polling" ]_vars

\* the first CONNACK found no subscription, the one after the reconnect found two
C13_Witness ==
    /\ connacks = 2
    /\ Len(subscribeCalls) = 1
    /\ Len(subscribeCalls[1]) = 2
    /\ runPc = "sleeping"

\* the transport is connected and on_connect has handled the CONNACK
Acknowledged == runPc \in {"polling", "sleeping"} /\ ~connack /\ connacks > 0

\* the (topic, qos) pairs given to the transport's subscribe so far
Subscribed ==
    UNION { Range(subscribeCalls[c]) : c \in 1..Len(subscribeCalls) }

\* C18: while the transport is connected and acknowledged, every subscription
\* of the list, those added since the connect included, has been given to
\* the transport's subscribe
C18_AddedSubscriptionIsSubscribed ==
    Acknowledged =>
        \A i \in 1..Len(subscriptions) :
            <<subscriptions[i].topic, subscriptions[i].qos>> \in Subscribed

----------------------------------------------------------------------------
(* Properties of run() and reconnect() *)

\* C14: inside reconnect() a failed attempt leaves run() inside reconnect(),
\* and reconnect() is left only by a connect that succeeded, into the poll
C14_ReconnectRetriesUntilConnected ==
    [][ runPc = "reconnecting" =>
          /\ (retries' # retries => lastConnect' = "error" /\ runPc' = "reconnecting")
          /\ (runPc' # "reconnecting" =>
                 runPc' = "polling" /\ lastConnect' = "ok" /\ retries' = retries) ]_vars

\* reconnect() returned after three or more failed attempts
C14_Witness ==
    /\ disconnects >= 1
    /\ retries >= 3
    /\ lastConnect = "ok"
    /\ runPc = "polling"

\* C15: the sleep after a failed attempt lasts the current backoff, so each
\* sleep is at least twice the one before until the cap
C15_WaitIsCurrentBackoff ==
    [][ retries' = retries + 1 =>
          /\ waited' = backoff
          /\ waited > 0 => waited' >= Min(60, 2 * waited) ]_vars

\* the backoff after n failed attempts with no jitter: 1, 2, 4, 8, 16, 32, 60, 60
JitterFree(n) == Min(60, 2 ^ n)

\* C16: the backoff of reconnect() starts at 1, never exceeds 60, never
\* decreases, and is never below the doubling sequence 1, 2, 4, ..., 32, 60
C16_BackoffBoundedMonotone ==
    /\ [](runPc = "reconnecting" =>
            /\ retries = 0 => backoff = 1
            /\ backoff >= JitterFree(retries)
            /\ backoff <= 60)
    /\ [][ runPc = "reconnecting" /\ runPc' = "reconnecting" => backoff' >= backoff ]_vars

\* seven failed attempts in a row: the backoff has reached the cap and stays
C16_Witness ==
    /\ runPc = "reconnecting"
    /\ retries = 7
    /\ backoff = 60

RunAlive == {"polling", "sleeping", "reconnecting"}

\* C19: the consumer task exists only once the first connect has succeeded,
\* and from then on run() stays in its loop, whatever handlers and the
\* transport do
C19_RunLoopsOnceConnected ==
    /\ [](task # "none" => runPc \in RunAlive /\ loop # None)
    /\ [][ (runPc \in RunAlive) => (runPc' \in RunAlive) ]_vars

\* a handler has raised, the connection was lost and an attempt refused, and
\* run() is in its loop
C19_Witness ==
    /\ raised # {}
    /\ task = "dead"
    /\ disconnects >= 1
    /\ retries >= 1
    /\ runPc = "sleeping"

----------------------------------------------------------------------------
(* Properties of the JSON wrapper *)

\* the handler decodes JSON and the payload is none
Malformed(item) ==
    ConvertJson(item.request.cb_method) /\ json_loads(item.msg.message) = None

\* C17: for a JSON-decoding handler and a payload that is no JSON the user's
\* function is not called; the request ends without raising, is not queued
\* again, and the consumer returns to queue.get()
C17_MalformedPayloadDismissed ==
    /\ [](\A item \in running : Malformed(item) => item.id \notin invoked)
    /\ [][ \A item \in running :
             (Malformed(item) /\ item \notin running') =>
                 /\ item.id \in finished'
                 /\ item.id \notin raised'
                 /\ item.id \notin invoked'
                 /\ item.id \notin Ids(queue') \cup Ids(scheduled')
                 /\ task' = "get" ]_vars
    /\ [](\A i, j \in 1..Len(started) : started[i] = started[j] => i = j)

\* a dismissed request was followed by one whose handler was called
C17_Witness ==
    /\ Len(started) >= 2
    /\ started[1] \in finished \ invoked
    /\ started[2] \in invoked \cap finished
    /\ raised = {}

----------------------------------------------------------------------------
(* Properties of the resolver: registration *)

RegisteredHandlers == {registered[k].callback : k \in 1..Len(registered)}

\* C21: every request callbacks(topic) returns carries a handler that was
\* registered, never the missing handler of a node nothing was registered at
C21_NoNullHandler ==
    lastOp = "callbacks" =>
        \A i \in 1..Len(lastResult) :
            /\ lastResult[i].cb_method # NoCallback
            /\ lastResult[i].cb_method \in RegisteredHandlers

\* an uncached match of topic against trie t returns node
NodeMatched(t, topic, node) ==
    \E i \in 1..Len(MatchList(t, topic)) : MatchList(t, topic)[i].node = node

\* C22: registering another pattern removes no match: a registered pattern
\* whose node an uncached match of T returned before the registration of a
\* different pattern is still returned after it
C22_RegisterKeepsMatches ==
    [][ Len(registered') = Len(registered) + 1 =>
          \A k \in 1..Len(registered), T \in Topics :
              ( /\ registered[k].topic # registered'[Len(registered')].topic
                /\ NodeMatched(trie, T, PatternNode(registered[k].topic)) )
              => NodeMatched(trie', T, PatternNode(registered[k].topic)) ]_vars

\* the trie node of the i-th segment of pattern
SegmentNode(pattern, i) == RealTopic(SubSeq(Split(pattern), 1, i))

\* registration k puts a named wildcard at segment i
NamesAt(k, i) ==
    /\ i <= Len(Split(registered[k].topic))
    /\ IsNamedPlus(Split(registered[k].topic)[i])

\* C23: where two registrations put differently named wildcards at the same
\* trie position, the node binds under the name of the later one
C23_LastParameterNameWins ==
    \A k \in 1..Len(registered) : \A i \in 1..Len(Split(registered[k].topic)) :
        ( /\ NamesAt(k, i)
          /\ \E j \in 1..(k - 1) :
                /\ NamesAt(j, i)
                /\ SegmentNode(registered[j].topic, i) = SegmentNode(registered[k].topic, i)
                /\ Split(registered[j].topic)[i] # Split(registered[k].topic)[i]
          /\ \A j \in (k + 1)..Len(registered) :
                ~( /\ NamesAt(j, i)
                   /\ SegmentNode(registered[j].topic, i) = SegmentNode(registered[k].topic, i) ) )
        => trie[SegmentNode(registered[k].topic, i)].parameter
              = Some(Slice1m1(Split(registered[k].topic)[i]))

\* the registrations filed at node
RegistrationsAt(node) ==
    { k \in 1..Len(registered) : PatternNode(registered[k].topic) = node }

\* the handler of the latest registration filed at node
LatestHandler(node) ==
    registered[CHOOSE k \in RegistrationsAt(node) :
                  \A j \in RegistrationsAt(node) : j <= k].callback

----------------------------------------------------------------------------
(* Properties of the resolver: matching *)

FirstRegistered(path) ==
    CHOOSE k \in 1..Len(registered) :
        /\ IsPrefix(path, PatternNode(registered[k].topic))
        /\ \A j \in 1..(k - 1) : ~IsPrefix(path, PatternNode(registered[j].topic))

\* the first position at which the paths a and b differ
Fork(a, b) ==
    CHOOSE d \in 1..Len(a) :
        /\ d <= Len(b)
        /\ a[d] # b[d]
        /\ SubSeq(a, 1, d - 1) = SubSeq(b, 1, d - 1)

\* C28: the matches come in depth-first order with the children of a node
\* in the order in which they were first registered: of two matches the
\* earlier is the one whose branch, where the two part, was registered first
C28_MatchesInRegistrationOrder ==
    lastOp = "callbacks" =>
        \A i, j \in 1..Len(lastMatches) :
            i < j =>
                LET a == lastMatches[i].node
                    b == lastMatches[j].node
                IN  /\ ~IsPrefix(a, b)
                    /\ ~IsPrefix(b, a)
                    /\ FirstRegistered(SubSeq(a, 1, Fork(a, b)))
                          < FirstRegistered(SubSeq(b, 1, Fork(a, b)))

\* "a/#" then "a/b" registered: callbacks("a/b") returned the '#' match first
C28_Witness ==
    /\ lastOp = "callbacks"
    /\ Len(registered) = 2
    /\ registered[1].topic = <<"a", "/", "#">>
    /\ registered[2].topic = <<"a", "/", "b">>
    /\ Len(lastResult) = 2
    /\ lastResult[1].cb_method = "h1"
    /\ lastResult[2].cb_method = "h2"

\* the classification of a pattern segment in the interface: "#" alone is the
\* multi-level wildcard, "+" and "+name+" the single-level one, the rest literal
InterfaceKey(part) ==
    IF part = <<"#">> THEN <<"#">>
    ELSE IF part = <<"+">> \/ IsNamedPlus(part) THEN <<"+">>
    ELSE part

InterfaceKeys(pattern) ==
    [i \in 1..Len(Split(pattern)) |-> InterfaceKey(Split(pattern)[i])]

\* C26: every registered pattern is filed in the trie under its segments as
\* the interface classifies them, '+name+' binding name, and the canonical
\* pattern stored for the transport is those segments joined
C26_SegmentClassification ==
    \A k \in 1..Len(registered) :
        LET pattern == registered[k].topic
            keys == InterfaceKeys(pattern)
        IN  /\ keys \in DOMAIN trie
            /\ subscriptions[k].topic = Join(keys)
            /\ \A i \in 1..Len(keys) :
                  IsNamedPlus(Split(pattern)[i]) =>
                      /\ SubSeq(keys, 1, i) \in DOMAIN trie
                      /\ trie[SubSeq(keys, 1, i)].parameter = Some(Slice1m1(Split(pattern)[i]))

----------------------------------------------------------------------------
(* Properties of the dispatch from on_message *)

\* the items on_message hands over for a message
Handed(topic, payload) ==
    [i \in 1..Len(callbacks(trie, cache, topic)) |->
        Item(nextId + i, callbacks(trie, cache, topic)[i], MQTTMessage(topic, payload))]

\* C29: on_message hands the requests of a message to the loop in the order
\* callbacks(topic) returned them, behind everything handed over before; and
\* the consumer begins handlers in that order, each only when all begun
\* before it have returned
C29_MessageOrderKept ==
    /\ [][ nextId' > nextId =>
             \E topic \in MessageTopics, payload \in Payloads :
                 /\ nextId' = nextId + Len(Handed(topic, payload))
                 /\ scheduled' = IF ready /\ loop # None
                                  THEN scheduled \o Handed(topic, payload)
                                  ELSE scheduled ]_vars
    /\ [](\A i, j \in 1..Len(started) : i < j => started[i] < started[j])
    /\ [][ started' # started =>
             /\ Range(started) \subseteq finished
             /\ \A id \in Range(calledReady) :
                   id < started'[Len(started')] => id \in Range(started) ]_vars

\* "a/b" with its two handlers, then "a/b/c": the three ran in that order
C29_Witness ==
    /\ calledReady = <<1, 2, 3>>
    /\ started = <<1, 2, 3>>
    /\ finished = {1, 2, 3}

----------------------------------------------------------------------------
(* Properties of reconnect() on the loop's thread *)

\* C30: while run() is inside reconnect() nothing else on the loop's thread
\* moves: no handler begins or ends, nothing is put on or taken from the
\* queue, and no message is dispatched
C30_ReconnectBlocksDispatch ==
    [][ runPc = "reconnecting" =>
          /\ started' = started
          /\ running' = running
          /\ finished' = finished
          /\ raised' = raised
          /\ queue' = queue
          /\ scheduled' = scheduled
          /\ nextId' = nextId
          /\ task' = task ]_vars

\* a request is queued and the consumer waits while reconnect() has failed twice
C30_Witness ==
    /\ runPc = "reconnecting"
    /\ retries >= 2
    /\ queue # <<>>
    /\ task = "get"

\* C31: every reconnect() begins at the base interval: when on_disconnect
\* enters it the backoff is 1, whatever an earlier reconnect() reached, and
\* the sleep after its first failed attempt lasts 1
C31_BackoffResetsOnSuccess ==
    [][ /\ (runPc = "polling" /\ runPc' = "reconnecting") => backoff' = BackoffTime
        /\ (runPc = "reconnecting" /\ retries = 0 /\ retries' = 1) =>
               waited' = BackoffTime ]_vars

\* the second reconnect() has begun at 1 after the first, which failed at
\* least twice and so had doubled its backoff, ended with a connect
C31_Witness ==
    /\ runPc = "reconnecting"
    /\ disconnects = 2
    /\ prevRetries >= 2
    /\ retries = 0
    /\ backoff = BackoffTime
    /\ lastConnect = "ok"

----------------------------------------------------------------------------
(* Properties of the subscription list *)

----------------------------------------------------------------------------
(* Properties of the runner's readiness *)

\* C33: whenever ready is true the process_callbacks task is alive, waiting
\* in queue.get() or running a handler, so that what run_callback accepts is
\* dequeued
C33_ReadyImpliesConsumerAlive == ready => task \in {"get", "handler"}

----------------------------------------------------------------------------
(* Properties of the parameters *)

\* C34: the parameters a callbacks() call returns for a node are the ones an
\* uncached match of the topic against the trie gives for it, whatever the
\* handlers of earlier messages did to the dicts they received
C34_ParametersUnaffectedByHandlers ==
    lastOp = "callbacks" =>
        LET match_list == MatchList(trie, lastTopic)
        IN  \A i \in 1..Len(lastResult), j \in 1..Len(match_list) :
                match_list[j].node = lastMatches[i].node =>
                    lastResult[i].parameters = match_list[j].parameters

\* the pattern binds one name at two wildcard positions
DuplicateNames(pattern) ==
    LET parts == Split(pattern)
    IN  \E i, j \in 1..Len(parts) :
            /\ i < j
            /\ IsNamedPlus(parts[i])
            /\ IsNamedPlus(parts[j])
            /\ Slice1m1(parts[i]) = Slice1m1(parts[j])

\* C36: a registration whose pattern binds the same name at two wildcard
\* positions leaves the trie and the subscription list unchanged
C36_DuplicateNameRejected ==
    [][ ( /\ registered' # registered
          /\ DuplicateNames(registered'[Len(registered')].topic) )
        => (trie' = trie /\ subscriptions' = subscriptions) ]_vars

\* the depths on a node's path at which a '+' node with a parameter name sits
NamedDepths(path) ==
    { d \in 1..Len(path) :
        /\ trie[SubSeq(path, 1, d)].part = Some(<<"+">>)
        /\ ParameterSet(trie[SubSeq(path, 1, d)]) }

\* C37: in an uncached lookup each match's parameters hold exactly the names
\* of the named '+' nodes on the path to the matched node, each bound to the
\* topic segment at that node's depth
C37_ParametersAreThePathBindings ==
    FreshLookup =>
        \A m \in 1..Len(lastMatches) :
            LET path == lastMatches[m].node
                parameters == lastMatches[m].parameters
            IN  /\ DOMAIN parameters =
                      { trie[SubSeq(path, 1, d)].parameter[1] : d \in NamedDepths(path) }
                /\ \A d \in NamedDepths(path) :
                      parameters[trie[SubSeq(path, 1, d)].parameter[1]] = Split(lastTopic)[d]

\* C38: in every state of run(), ready implies that the runner's loop is
\* set, and every run_callback call made while ready has its request handed
\* to the loop, on the queue, or taken from it by the consumer
C38_ReadyImpliesLoopSet ==
    /\ ready => loop # None
    /\ Range(calledReady) \subseteq Ids(scheduled) \cup Ids(queue) \cup Range(started)

\* a run_callback call passed the ready check and its request is on the queue
C38_Witness ==
    /\ ready
    /\ loop # None
    /\ calledReady # <<>>
    /\ calledReady[1] \in Ids(queue)

----------------------------------------------------------------------------
(* Properties of two clients in one process *)

\* C35: a request enqueued through the first client's runner is never
\* dequeued and begun by the second client's process_callbacks task
C35_RunnerOwnsItsQueue == peerStarted = <<>>

====
